---- MODULE Spec2Model ----
(***************************************************************************)
(* scrape_blogger: pagination walk, bounded-concurrency scrape with retry, *)
(* shared aggregation and persistence.  Two programs live in the           *)
(* repository: the monolithic src/src/main.rs and the library version in   *)
(* src/src/scrapers.rs + src/src/helpers.rs.  The variable `program` says  *)
(* which one is running; where the two differ the definitions branch on it.*)
(***************************************************************************)
EXTENDS Integers, Sequences, FiniteSets, Bags, TLC

\* ---------------------------------------------------------------- bounds
NumAddrs == 2
NumPages == 2
MaxThreads == 2
MaxK == 5
MaxFetch == 2
MaxItems == 3

\* ------------------------------------------------------ program constants
MAX_RETRIES == 4

Addrs == 1..NumAddrs            \* item addresses (post URLs)
Pages == 1..NumPages            \* pagination page addresses
BaseUrl == 1                    \* base_url: the page the walk starts from
NoLink == 0                     \* find_older_posts_link returned None
NoWorker == 0                   \* a mutex nobody holds
Workers == 1..MaxThreads
Writers == {1, 2}                \* write_to_file invocations: this run's, a concurrent run's
NoWriter == 0                    \* an advisory lock nobody holds
Programs == {"scrapers.rs", "main.rs"}

VARIABLES
    program,        \* which of the two programs is running
    recent_only,    \* Cli.recent_only
    threads,        \* Cli.threads
    site,           \* environment: site[p] = the responses a fetch of page p may give
    failK,          \* environment: fetch_and_process_post(a) fails on its first failK[a] calls
    file_backup,    \* environment: the posts read_posts_from_file finds in backup.json
    unnumbered,     \* environment: the addresses whose page title ends in no "(n)"
    pc,             \* position of the main thread
    backup,         \* Arc<Mutex<Vec<Post>>>: the Aggregate
    error_written,  \* Arc<Mutex<bool>>: the had_errors flag
    log_file,       \* Arc<Mutex<File>>: the log sink, a bag of records (one per line)
    backup_lock,    \* holder of the backup mutex
    err_lock,       \* holder of the error_written mutex
    log_lock,       \* holder of the log_file mutex
    current_url,    \* scrape_all_post_links: current_url
    visited_urls,   \* scrape_all_post_links: visited_urls
    all_links,      \* scrape_all_post_links: all_links
    fetch_count,    \* history: fetch_html calls per pagination page
    post_links,     \* the discovery set handed to the pool
    pending,        \* addresses par_iter has not handed to a worker yet
    wpc,            \* per worker: position inside the for_each closure
    link,           \* per worker: the address it is working on
    attempts,       \* per worker: fetch_and_process_with_retries' attempts
    invoked,        \* history: fetch_and_process_with_retries calls per address
    calls,          \* history: fetch_and_process_post calls per address
    outcome,        \* history: the Result fetch_and_process_with_retries returned, per address
    run_no,         \* history: 1 in the first discovery, 2 in the repeated one
    first_links,    \* history: the discovery set of the first discovery
    failed_pages,   \* history: the pagination pages whose fetch_html failed
    missing_ids,    \* history: find_missing_ids' missing_ids of its last call
    loaded,         \* history: the posts of backup.json were put into the Aggregate
    dest,           \* the destination file's content, a sequence of tokens
    flock,          \* holder of the advisory lock on the destination file
    wr_pc,          \* per write_to_file invocation: its position
    wr_data         \* per write_to_file invocation: its `data` argument

vars == <<program, recent_only, threads, site, failK, file_backup, unnumbered, pc, backup,
          error_written, log_file, backup_lock, err_lock, log_lock,
          current_url, visited_urls, all_links, fetch_count, post_links, pending,
          wpc, link, attempts, invoked, calls, outcome, run_no, first_links,
          failed_pages, missing_ids, loaded, dest, flock, wr_pc, wr_data>>

envVars == <<program, recent_only, threads, site, failK, file_backup, unnumbered>>
walkVars == <<current_url, visited_urls, all_links, fetch_count, failed_pages>>
fileVars == <<dest, flock, wr_pc, wr_data>>
lockVars == <<backup_lock, err_lock, log_lock>>
histVars == <<run_no, first_links, missing_ids, loaded>>

\* ------------------------------------------------------------ data model
\* Option::None in a post's id and date fields.
None == "None"

\* The id strings extract_id_from_title can find at the end of a title (digits,
\* a leading zero included) and one a loaded archive can hold that is no number.
IdLabels == {ToString(n) : n \in 0..MaxItems} \cup {"01", "x"}

\* The date strings of a post: a plain date, the same day with the weekday in
\* front, a later day, and a text that holds no date.
DateLabels == {"1 May 2020", "Friday, 1 May 2020", "2 May 2020", "soon"}

\* The id in the title of the page at an address, and the date the page shows:
\* the titles are numbered with the addresses, those of the unnumbered pages
\* carry no id; the odd addresses are the later posts.
PageId(url) == IF url \in unnumbered THEN None ELSE ToString(url)
PageDate(url) == IF url % 2 = 1 THEN "2 May 2020" ELSE "1 May 2020"

\* The Post fetch_and_process_post builds for an address.
Post(url) == [URL |-> url, id |-> PageId(url), date |-> PageDate(url)]

\* A fetched pagination page: the item links extract_post_links finds in it and
\* the link find_older_posts_link finds; ok = FALSE is a failed fetch_html.
Documents == [ok : {TRUE}, links : SUBSET Addrs, next : Pages \cup {NoLink}]
FetchError == [ok |-> FALSE, links |-> {}, next |-> NoLink]
Responses == Documents \cup {FetchError}

RECURSIVE PostsOf(_)
\* The posts of the addresses S, one each, newest (highest) address first.
PostsOf(S) ==
    IF S = {} THEN <<>>
    ELSE LET a == CHOOSE x \in S : \A y \in S : y <= x
         IN  <<Post(a)>> \o PostsOf(S \ {a})

\* The archives a previous run can have left in backup.json: no address twice.
Archives == {PostsOf(S) : S \in SUBSET Addrs}

URLs(posts) == {posts[i].URL : i \in 1..Len(posts)}

WarnRecord(url, n) == [tag |-> "WARN", url |-> url, attempt |-> n]
ErrorRecord(url) == [tag |-> "ERROR", url |-> url, attempt |-> 0]

\* writeln!(log, ...): one more line in the sink.
WriteLine(log, record) == log (+) SetToBag({record})

\* The number of lines of the sink with this tag and address.
RECURSIVE SumCopies(_, _)
SumCopies(log, records) ==
    IF records = {} THEN 0
    ELSE LET r == CHOOSE x \in records : TRUE
         IN  CopiesIn(r, log) + SumCopies(log, records \ {r})

Count(log, tag, url) ==
    SumCopies(log, {r \in BagToSet(log) : r.tag = tag /\ r.url = url})
Occurrences(posts, url) == Cardinality({i \in 1..Len(posts) : posts[i].URL = url})

Min(a, b) == IF a <= b THEN a ELSE b

\* ------------------------------------------------------------- discovery
\* scrape_all_post_links' archived_links: the URLs of the loaded backup.  main.rs
\* has no prior archive and filters nothing.
ArchivedLinks ==
    IF program = "scrapers.rs" THEN URLs(backup) ELSE {}

\* The test that ends the walk as a pagination loop: scrapers.rs looks the next
\* link up in visited_urls, main.rs only compares it with the current page.
LoopDetected(next_url) ==
    IF program = "scrapers.rs" THEN next_url \in visited_urls ELSE next_url = current_url

\* Faulty variant of NewLinks: the filter on archived_links is left out.
NewLinksUnfiltered(links) == links

\* new_links: the page's links that are not archived.
NewLinks(links) == links \ ArchivedLinks

\* Faulty variant of OnFetchError: the failed page is fetched again.
OnFetchErrorRetry == "discover"

\* fetch_html(...)? in the discovery: the error is returned, the run is over.
OnFetchError == "error"

\* search_and_scrape's first lines: load backup.json into the Aggregate.  A
\* missing, unreadable or unparsable file leaves the Aggregate empty, and so
\* does a file without posts.
LoadBackup ==
    /\ pc = "start"
    /\ \E readable \in BOOLEAN :
          /\ backup' = IF program = "scrapers.rs" /\ readable THEN file_backup ELSE <<>>
          /\ loaded' = (program = "scrapers.rs" /\ readable /\ file_backup # <<>>)
    /\ pc' = "discover"
    /\ UNCHANGED <<envVars, fileVars, walkVars, lockVars, run_no, first_links, missing_ids,
                   error_written, log_file,
                   post_links, pending, wpc, link, attempts, invoked, calls, outcome>>

\* scrape_base_page_post_links (recent-only mode): one fetch of the base page,
\* every matching link of it, no filter.
ScrapeBasePage ==
    /\ pc = "discover"
    /\ recent_only
    /\ \E r \in site[BaseUrl] :
          /\ fetch_count' = [fetch_count EXCEPT ![BaseUrl] = @ + 1]
          /\ IF r.ok
                THEN /\ post_links' = r.links
                     /\ pending' = r.links
                     /\ pc' = "fanout"
                     /\ UNCHANGED failed_pages
                ELSE /\ pc' = OnFetchError
                     /\ failed_pages' = failed_pages \cup {BaseUrl}
                     /\ UNCHANGED <<post_links, pending>>
    /\ UNCHANGED <<envVars, fileVars, lockVars, histVars, backup, error_written, log_file,
                   current_url, visited_urls, all_links,
                   wpc, link, attempts, invoked, calls, outcome>>

\* One iteration of scrape_all_post_links' loop: fetch current_url, add the
\* page's links that are not archived, then follow the older-posts link, or
\* stop when there is none or LoopDetected says so: the function returns
\* all_links and its locals are gone.  A failed fetch returns the error through
\* `?` and search_and_scrape (main) returns it in turn.
ScrapeAllStep ==
    /\ pc = "discover"
    /\ ~recent_only
    /\ fetch_count[current_url] < MaxFetch
    /\ \E r \in site[current_url] :
          /\ fetch_count' = [fetch_count EXCEPT ![current_url] = @ + 1]
          /\ IF ~r.ok
                THEN /\ pc' = OnFetchError
                     /\ failed_pages' = failed_pages \cup {current_url}
                     /\ UNCHANGED <<current_url, visited_urls, all_links, post_links, pending>>
                ELSE LET found == all_links \cup NewLinks(r.links) IN
                     /\ UNCHANGED failed_pages
                     /\ IF r.next = NoLink \/ LoopDetected(r.next)
                           THEN /\ post_links' = found
                                /\ pending' = found
                                /\ pc' = "fanout"
                                /\ current_url' = BaseUrl
                                /\ visited_urls' = {BaseUrl}
                                /\ all_links' = {}
                           ELSE /\ all_links' = found
                                /\ visited_urls' = visited_urls \cup {r.next}
                                /\ current_url' = r.next
                                /\ UNCHANGED <<post_links, pending, pc>>
    /\ UNCHANGED <<envVars, fileVars, lockVars, histVars, backup, error_written, log_file,
                   wpc, link, attempts, invoked, calls, outcome>>

\* ---------------------------------------------------------------- fan-out
\* fetch_and_process_post's result on the n-th call for an address.
Fails(url, n) == n <= failK[url]

\* Faulty variant of PushPost: a push that overwrites the last slot (a lost append).
PushPostLost(posts, post) ==
    IF posts = <<>> THEN <<post>> ELSE [posts EXCEPT ![Len(posts)] = post]

\* Faulty variant of PushPost: the post is put in front.
PushPostFront(posts, post) == <<post>> \o posts

\* Faulty variant of PushPost: the oldest post makes room for the new one.
PushPostRotate(posts, post) ==
    IF posts = <<>> THEN <<post>> ELSE Append(Tail(posts), post)

\* Vec::push under the backup mutex.
PushPost(posts, post) == Append(posts, post)

\* Faulty variant of SetFlag: the flag is flipped instead of set.
ToggleFlag(flag) == ~flag

\* *err_written = true
SetFlag(flag) == TRUE

\* Faulty variant of Terminal: one attempt too many.
TerminalLate(n) == n > MAX_RETRIES

\* Faulty variant of Terminal: one attempt too few.
TerminalEarly(n) == n >= MAX_RETRIES - 1

\* Faulty variant of Terminal: the loop never gives up.
TerminalNever(n) == FALSE

\* The arm of fetch_and_process_with_retries' match a failed attempt takes:
\* attempts >= MAX_RETRIES returns the error.
Terminal(n) == n >= MAX_RETRIES

Idle(w) == wpc[w] = "idle"

\* Faulty variant of Take: workers beyond the configured pool size take addresses too.
TakeBeyondPool(w) ==
    /\ pc = "fanout"
    /\ Idle(w)
    /\ \A v \in 1..(w - 1) : ~Idle(v)
    /\ \E a \in pending :
          /\ pending' = pending \ {a}
          /\ link' = [link EXCEPT ![w] = a]
          /\ invoked' = [invoked EXCEPT ![a] = @ + 1]
    /\ wpc' = [wpc EXCEPT ![w] = "attempt"]
    /\ attempts' = [attempts EXCEPT ![w] = 0]
    /\ UNCHANGED <<envVars, fileVars, walkVars, lockVars, histVars, pc, backup, error_written,
                   log_file, post_links, calls, outcome>>

\* par_iter hands an address nobody has taken to a free worker of the pool; the
\* closure calls fetch_and_process_with_retries, which starts with attempts = 0.
\* Free workers are interchangeable: the lowest-numbered one takes the address.
Take(w) ==
    /\ pc = "fanout"
    /\ w <= threads
    /\ Idle(w)
    /\ \A v \in 1..(w - 1) : ~Idle(v)
    /\ \E a \in pending :
          /\ pending' = pending \ {a}
          /\ link' = [link EXCEPT ![w] = a]
          /\ invoked' = [invoked EXCEPT ![a] = @ + 1]
    /\ wpc' = [wpc EXCEPT ![w] = "attempt"]
    /\ attempts' = [attempts EXCEPT ![w] = 0]
    /\ UNCHANGED <<envVars, fileVars, walkVars, lockVars, histVars, pc, backup, error_written,
                   log_file, post_links, calls, outcome>>

\* One turn of the retry loop up to the match: attempts += 1, then
\* fetch_and_process_post.  Ok returns the post; Err returns the error when
\* attempts >= MAX_RETRIES and goes on to the warning otherwise.
Attempt(w) ==
    /\ wpc[w] = "attempt"
    /\ LET a == link[w]
           n == attempts[w] + 1
           c == calls[a] + 1
       IN  /\ attempts' = [attempts EXCEPT ![w] = n]
           /\ calls' = [calls EXCEPT ![a] = c]
           /\ IF ~Fails(a, c)
                 THEN /\ wpc' = [wpc EXCEPT ![w] = "push_wait"]
                      /\ outcome' = [outcome EXCEPT ![a] = "ok"]
                 ELSE IF Terminal(n)
                 THEN /\ wpc' = [wpc EXCEPT ![w] = "err_wait"]
                      /\ outcome' = [outcome EXCEPT ![a] = "err"]
                 ELSE /\ wpc' = [wpc EXCEPT ![w] = "warn_wait"]
                      /\ UNCHANGED outcome
    /\ UNCHANGED <<envVars, fileVars, walkVars, lockVars, histVars, pc, backup, error_written,
                   log_file, post_links, pending, link, invoked>>

\* logfile.lock() and the writeln! of the [WARN] record.
Warn(w) ==
    /\ wpc[w] = "warn_wait"
    /\ log_lock = NoWorker
    /\ log_lock' = w
    /\ log_file' = WriteLine(log_file, WarnRecord(link[w], attempts[w]))
    /\ wpc' = [wpc EXCEPT ![w] = "sleep"]
    /\ UNCHANGED <<envVars, fileVars, walkVars, histVars, pc, backup, error_written, backup_lock,
                   err_lock, post_links, pending, link, attempts, invoked, calls, outcome>>

\* Faulty variant of Sleep: the guard outlives the else block and is still held in the
\* next turn of the loop.
SleepHolding(w) ==
    /\ wpc[w] = "sleep"
    /\ UNCHANGED log_lock
    /\ wpc' = [wpc EXCEPT ![w] = "attempt"]
    /\ UNCHANGED <<envVars, fileVars, walkVars, histVars, pc, backup, error_written, log_file,
                   backup_lock, err_lock, post_links, pending, link, attempts, invoked,
                   calls, outcome>>

\* thread::sleep(RETRY_DELAY); the guard `log` is dropped at the end of the
\* else block, after the sleep.
Sleep(w) ==
    /\ wpc[w] = "sleep"
    /\ log_lock' = NoWorker
    /\ wpc' = [wpc EXCEPT ![w] = "attempt"]
    /\ UNCHANGED <<envVars, fileVars, walkVars, histVars, pc, backup, error_written, log_file,
                   backup_lock, err_lock, post_links, pending, link, attempts, invoked,
                   calls, outcome>>

\* Faulty variant of LockBackup: the lock does not keep a second holder out.
LockBackupShared(w) ==
    /\ wpc[w] = "push_wait"
    /\ backup_lock' = w
    /\ wpc' = [wpc EXCEPT ![w] = "push"]
    /\ UNCHANGED <<envVars, fileVars, walkVars, histVars, pc, backup, error_written, log_file,
                   err_lock, log_lock, post_links, pending, link, attempts, invoked,
                   calls, outcome>>

\* Ok arm: backup.lock()
LockBackup(w) ==
    /\ wpc[w] = "push_wait"
    /\ backup_lock = NoWorker
    /\ backup_lock' = w
    /\ wpc' = [wpc EXCEPT ![w] = "push"]
    /\ UNCHANGED <<envVars, fileVars, walkVars, histVars, pc, backup, error_written, log_file,
                   err_lock, log_lock, post_links, pending, link, attempts, invoked,
                   calls, outcome>>

\* Ok arm: backup.push(post), the guard dropped at the end of the arm, progress.inc.
Push(w) ==
    /\ wpc[w] = "push"
    /\ backup' = PushPost(backup, Post(link[w]))
    /\ backup_lock' = NoWorker
    /\ wpc' = [wpc EXCEPT ![w] = "idle"]
    /\ link' = [link EXCEPT ![w] = NoLink]
    /\ attempts' = [attempts EXCEPT ![w] = 0]
    /\ UNCHANGED <<envVars, fileVars, walkVars, histVars, pc, error_written, log_file,
                   err_lock, log_lock, post_links, pending, invoked, calls, outcome>>

\* Err arm: error_written.lock() and *err_written = true.
FlagError(w) ==
    /\ wpc[w] = "err_wait"
    /\ err_lock = NoWorker
    /\ err_lock' = w
    /\ error_written' = SetFlag(error_written)
    /\ wpc' = [wpc EXCEPT ![w] = "errlog_wait"]
    /\ UNCHANGED <<envVars, fileVars, walkVars, histVars, pc, backup, log_file, backup_lock,
                   log_lock, post_links, pending, link, attempts, invoked, calls, outcome>>

\* Faulty variant of LogError: a terminal failure drops the addresses not yet taken.
LogErrorAbort(w) ==
    /\ wpc[w] = "errlog_wait"
    /\ log_lock = NoWorker
    /\ log_file' = WriteLine(log_file, ErrorRecord(link[w]))
    /\ err_lock' = NoWorker
    /\ wpc' = [wpc EXCEPT ![w] = "idle"]
    /\ link' = [link EXCEPT ![w] = NoLink]
    /\ attempts' = [attempts EXCEPT ![w] = 0]
    /\ pending' = {}
    /\ UNCHANGED <<envVars, fileVars, walkVars, histVars, pc, backup, error_written,
                   backup_lock, log_lock, post_links, invoked, calls, outcome>>

\* Err arm: log_file.lock(), the writeln! of the [ERROR] record, both guards
\* dropped at the end of the arm, progress.inc.
LogError(w) ==
    /\ wpc[w] = "errlog_wait"
    /\ log_lock = NoWorker
    /\ log_file' = WriteLine(log_file, ErrorRecord(link[w]))
    /\ err_lock' = NoWorker
    /\ wpc' = [wpc EXCEPT ![w] = "idle"]
    /\ link' = [link EXCEPT ![w] = NoLink]
    /\ attempts' = [attempts EXCEPT ![w] = 0]
    /\ UNCHANGED <<envVars, fileVars, walkVars, histVars, pc, backup, error_written, backup_lock,
                   log_lock, post_links, pending, invoked, calls, outcome>>

\* Faulty variant of Join: the pool returns once every address has been handed out.
JoinEarly ==
    /\ pc = "fanout"
    /\ pending = {}
    /\ pc' = "joined"
    /\ UNCHANGED <<envVars, fileVars, walkVars, lockVars, histVars, backup, error_written, log_file,
                   post_links, pending, wpc, link, attempts, invoked, calls, outcome>>

\* pool.install returns once for_each has run the closure on every address;
\* Arc::try_unwrap(backup) takes the Aggregate out of its mutex.
Join ==
    /\ pc = "fanout"
    /\ pending = {}
    /\ \A w \in Workers : Idle(w)
    /\ pc' = "joined"
    /\ UNCHANGED <<envVars, fileVars, walkVars, lockVars, histVars, backup, error_written, log_file,
                   post_links, pending, wpc, link, attempts, invoked, calls, outcome>>

\* ---------------------------------------------------------- persistence
RECURSIVE Items(_)
\* The serialized posts, one token each, in order.
Items(posts) ==
    IF posts = <<>> THEN <<>>
    ELSE <<ToString(Head(posts).URL)>> \o Items(Tail(posts))

\* serde_json::to_string_pretty(data): a JSON array of the posts.
Serialize(posts) == <<"[">> \o Items(posts) \o <<"]">>

\* What the destination holds before any invocation: an earlier output.
PreviousContent == <<"[", "previous", "]">>

\* File::create(path): create or truncate.
Truncated == <<>>

anyWriterVars == <<envVars, walkVars, lockVars, histVars, pc, backup, error_written,
                   log_file, post_links, pending, wpc, link, attempts, invoked, calls,
                   outcome>>

\* File::create(path)?: opens the destination and truncates it, before any lock
\* is taken.  An error returns at once and leaves the file alone.
Create(p) ==
    /\ wr_pc[p] = "create"
    /\ \E ok \in BOOLEAN :
          IF ok
             THEN /\ dest' = Truncated
                  /\ wr_pc' = [wr_pc EXCEPT ![p] = "lock"]
             ELSE /\ wr_pc' = [wr_pc EXCEPT ![p] = "failed"]
                  /\ UNCHANGED dest
    /\ UNCHANGED <<anyWriterVars, flock, wr_data>>

\* file.lock_exclusive()?: blocks while another invocation holds the lock.
LockExclusive(p) ==
    /\ wr_pc[p] = "lock"
    /\ \E ok \in BOOLEAN :
          IF ok
             THEN /\ flock = NoWriter
                  /\ flock' = p
                  /\ wr_pc' = [wr_pc EXCEPT ![p] = "write"]
             ELSE /\ wr_pc' = [wr_pc EXCEPT ![p] = "failed"]
                  /\ UNCHANGED flock
    /\ UNCHANGED <<anyWriterVars, dest, wr_data>>

\* to_string_pretty(data)? and fs::write(path, json_data)?: the whole content in
\* one write.  fs::write opens the path anew and truncates it, so a failed
\* write leaves the old content or none; the error return drops `file`, which
\* releases the lock.
WriteAll(p) ==
    /\ wr_pc[p] = "write"
    /\ \E ok \in BOOLEAN :
          IF ok
             THEN /\ dest' = Serialize(wr_data[p])
                  /\ wr_pc' = [wr_pc EXCEPT ![p] = "unlock"]
                  /\ UNCHANGED flock
             ELSE /\ dest' \in {dest, Truncated}
                  /\ wr_pc' = [wr_pc EXCEPT ![p] = "failed"]
                  /\ flock' = NoWriter
    /\ UNCHANGED <<anyWriterVars, wr_data>>

\* file.unlock()?: the lock is gone either way (an error drops `file`).
Unlock(p) ==
    /\ wr_pc[p] = "unlock"
    /\ flock' = NoWriter
    /\ \E ok \in BOOLEAN :
          wr_pc' = [wr_pc EXCEPT ![p] = IF ok THEN "done" ELSE "failed"]
    /\ UNCHANGED <<anyWriterVars, dest, wr_data>>

\* main: write_to_file(&backup, output_file) is called with the sorted Aggregate.
StartWrite ==
    /\ pc = "sorted"
    /\ pc' = "write"
    /\ wr_pc' = [wr_pc EXCEPT ![1] = "create"]
    /\ wr_data' = [wr_data EXCEPT ![1] = backup]
    /\ UNCHANGED <<envVars, walkVars, lockVars, histVars, backup, error_written, log_file,
                   post_links, pending, wpc, link, attempts, invoked, calls, outcome,
                   dest, flock>>

\* main: write_to_file(...)? returned; an Err ends the run with that error,
\* an Ok goes on to the report of the flag and to find_duplicates.
FinishWrite ==
    /\ pc = "write"
    /\ wr_pc[1] \in {"done", "failed"}
    /\ pc' = IF wr_pc[1] = "done" THEN "find_duplicates" ELSE "error"
    /\ UNCHANGED <<envVars, fileVars, walkVars, lockVars, histVars, backup, error_written,
                   log_file, post_links, pending, wpc, link, attempts, invoked, calls,
                   outcome>>

\* ------------------------------------------- sort and consistency checks
\* What the comparators and find_missing_ids make of an id: id.parse() of a
\* present id, NoNumber (below every number, as Option's None is) otherwise.
NoNumber == -1
ParseId(id) ==
    IF id = "01" THEN 1
    ELSE IF \E n \in 0..(MaxItems + NumAddrs) : ToString(n) = id
         THEN CHOOSE n \in 0..(MaxItems + NumAddrs) : ToString(n) = id
         ELSE NoNumber

\* What the date comparators make of a date: the regex capture of
\* "day month year" parsed with "%d %B %Y" and counted in days, NoDate (below
\* every date) for an absent date and for one the capture or the parse rejects.
NoDate == 0
ParseDate(date) ==
    CASE date = "1 May 2020" -> 1
      [] date = "Friday, 1 May 2020" -> 1
      [] date = "2 May 2020" -> 2
      [] OTHER -> NoDate

\* slice::sort_by, a stable sort: keys[i] is the key of posts[i]; ascending
\* keys, equal keys in their old order.
SortByKeys(posts, keys) ==
    LET n == Len(posts)
        before(i) == {j \in 1..n : keys[j] < keys[i] \/ (keys[j] = keys[i] /\ j < i)}
    IN  [p \in 1..n |-> posts[CHOOSE i \in 1..n : Cardinality(before(i)) = p - 1]]

\* Faulty variant of SortById: ascending ids.
SortByIdAsc(posts) ==
    SortByKeys(posts, [i \in 1..Len(posts) |-> ParseId(posts[i].id)])

\* main's backup.sort_by: a_id.cmp(&b_id).reverse() on the parsed ids.
SortById(posts) ==
    SortByKeys(posts, [i \in 1..Len(posts) |-> 0 - ParseId(posts[i].id)])

\* sort_backup_asc: a_date.cmp(&b_date) on the parsed dates.
SortBackupAsc(posts) ==
    SortByKeys(posts, [i \in 1..Len(posts) |-> ParseDate(posts[i].date)])

\* main: Arc::try_unwrap has taken the Aggregate out; it is sorted in place.
SortBackup ==
    /\ pc = "joined"
    /\ backup' = SortById(backup)
    /\ pc' = "sorted"
    /\ UNCHANGED <<envVars, fileVars, walkVars, lockVars, histVars, error_written, log_file,
                   post_links, pending, wpc, link, attempts, invoked, calls, outcome>>

\* id_counts: how many posts carry this string as their id.
IdCount(posts, id) == Cardinality({i \in 1..Len(posts) : posts[i].id = id})

\* Faulty variant of IsDuplicate: an id counts as a duplicate from the third post on.
IsDuplicateLate(count) == count > 2

\* The filter of find_duplicates.
IsDuplicate(count) == count > 1

DuplicateRecord(id, count) == [tag |-> "DUPLICATE", dup_id |-> id, count |-> count]

\* find_duplicates: id_counts holds the present ids only; one [DUPLICATE] line
\* for each of its entries that passes the filter.  The posts are borrowed.
FindDuplicates ==
    /\ pc = "find_duplicates"
    /\ LET present == {backup[i].id : i \in 1..Len(backup)} \ {None}
           duplicates == {id \in present : IsDuplicate(IdCount(backup, id))}
       IN  log_file' = log_file (+)
               SetToBag({DuplicateRecord(id, IdCount(backup, id)) : id \in duplicates})
    /\ pc' = "find_missing_ids"
    /\ UNCHANGED <<envVars, fileVars, walkVars, lockVars, histVars, backup, error_written,
                   post_links, pending, wpc, link, attempts, invoked, calls, outcome>>

\* The parsed ids of the posts whose id is present and parses, one per post.
ParsedIds(posts) ==
    LET parsed == [i \in 1..Len(posts) |->
                      IF posts[i].id = None THEN NoNumber ELSE ParseId(posts[i].id)]
    IN  SelectSeq(parsed, LAMBDA n : n # NoNumber)

\* Faulty variant of ExpectedNums: 0..num_ids without its upper end.
ExpectedNumsShort(num_ids) == [i \in 1..num_ids |-> i - 1]

\* (0..=num_ids), in order.
ExpectedNums(num_ids) == [i \in 1..(num_ids + 1) |-> i - 1]

Range(seq) == {seq[i] : i \in 1..Len(seq)}

RECURSIVE Sorted(_)
\* The numbers of a set in a Vec after sort().
Sorted(S) ==
    IF S = {} THEN <<>>
    ELSE LET m == CHOOSE x \in S : \A y \in S : x <= y
         IN  <<m>> \o Sorted(S \ {m})

\* find_missing_ids' missing_ids: main.rs goes through the expected numbers in
\* order and keeps those the ids do not contain; helpers.rs takes the
\* difference of the two hash sets and sorts it.
MissingIds(posts) ==
    LET ids == ParsedIds(posts)
        num_ids == Len(ids)
    IN  IF program = "main.rs"
           THEN SelectSeq(ExpectedNums(num_ids), LAMBDA n : n \notin Range(ids))
           ELSE Sorted(Range(ExpectedNums(num_ids)) \ Range(ids))

\* helpers.rs: the posts whose id is absent, after sort_backup_asc.
PostsWithoutIds(posts) ==
    SortBackupAsc(SelectSeq(posts, LAMBDA post : post.id = None))

MissingRecord(id, url) == [tag |-> "MISSING", missing_id |-> id, url |-> url]
MissingIdRecord(id) == [tag |-> "MISSING ID", missing_id |-> id, url |-> NoLink]

\* The lines find_missing_ids writes: main.rs one [MISSING ID] line per missing
\* id; helpers.rs one [MISSING] line per pair of missing_ids.zip(posts_without_ids),
\* the post named by its title, which the address stands for here.
MissingLines(posts) ==
    LET missing == MissingIds(posts)
        without == PostsWithoutIds(posts)
    IN  IF program = "main.rs"
           THEN {MissingIdRecord(missing[i]) : i \in 1..Len(missing)}
           ELSE {MissingRecord(missing[i], without[i].URL) :
                     i \in 1..Min(Len(missing), Len(without))}

\* find_missing_ids, the run's last step.
FindMissingIds ==
    /\ pc = "find_missing_ids"
    /\ missing_ids' = MissingIds(backup)
    /\ log_file' = log_file (+) SetToBag(MissingLines(backup))
    /\ pc' = "done"
    /\ UNCHANGED <<envVars, fileVars, walkVars, lockVars, run_no, first_links, loaded, backup,
                   error_written, post_links, pending, wpc, link, attempts, invoked, calls,
                   outcome>>

\* No write_to_file invocation has started; no concurrent run exists.
InitNoWrite ==
    /\ dest = PreviousContent
    /\ flock = NoWriter
    /\ wr_pc = [p \in Writers |-> IF p = 1 THEN "idle" ELSE "off"]
    /\ wr_data = [p \in Writers |-> <<>>]

\* ------------------------------------------------------------ the run
\* The stubs the pool is run against: an address that succeeds at once and one
\* that fails for good (every attempt, every warning, then the error).
StubKs == {0, MAX_RETRIES}

InitFlags ==
    /\ error_written = FALSE
    /\ log_file = EmptyBag
    /\ backup_lock = NoWorker
    /\ err_lock = NoWorker
    /\ log_lock = NoWorker

InitWalk ==
    /\ current_url = BaseUrl
    /\ visited_urls = {BaseUrl}
    /\ all_links = {}
    /\ fetch_count = [p \in Pages |-> 0]
    /\ failed_pages = {}
    /\ run_no = 1
    /\ first_links = {}
    /\ missing_ids = <<>>
    /\ loaded = (file_backup # <<>> /\ backup = file_backup)

InitWorkers ==
    /\ wpc = [w \in Workers |-> "idle"]
    /\ link = [w \in Workers |-> NoLink]
    /\ attempts = [w \in Workers |-> 0]
    /\ invoked = [a \in Addrs |-> 0]
    /\ calls = [a \in Addrs |-> 0]
    /\ outcome = [a \in Addrs |-> "none"]

\* Any site: a fetch of a page may give any response.
AnySite == [p \in Pages |-> Responses]

\* A whole run of the library version: any site, any prior archive, any stub.
Init ==
    /\ unnumbered = {}
    /\ program = "scrapers.rs"
    /\ recent_only \in BOOLEAN
    /\ threads \in 1..MaxThreads
    /\ site = AnySite
    /\ failK \in [Addrs -> StubKs]
    /\ file_backup \in Archives
    /\ pc = "start"
    /\ backup = <<>>
    /\ post_links = {}
    /\ pending = {}
    /\ InitFlags
    /\ InitWalk
    /\ InitWorkers
    /\ InitNoWrite

Next ==
    \/ LoadBackup
    \/ ScrapeBasePage
    \/ ScrapeAllStep
    \/ \E w \in Workers : Take(w)
    \/ \E w \in Workers : Attempt(w)
    \/ \E w \in Workers : Warn(w)
    \/ \E w \in Workers : Sleep(w)
    \/ \E w \in Workers : LockBackup(w)
    \/ \E w \in Workers : Push(w)
    \/ \E w \in Workers : FlagError(w)
    \/ \E w \in Workers : LogError(w)
    \/ Join
    \/ SortBackup
    \/ StartWrite
    \/ Create(1)
    \/ LockExclusive(1)
    \/ WriteAll(1)
    \/ Unlock(1)
    \/ FinishWrite
    \/ FindDuplicates
    \/ FindMissingIds

Spec == Init /\ [][Next]_vars

\* ------------------------------------------------- the pool on its own
\* The state at pool.install: any discovery set, any stub, any pool size, the
\* Aggregate empty (main.rs) or holding the loaded archive (scrapers.rs), which
\* the full-mode discovery set never overlaps.
InitPool ==
    /\ unnumbered = {}
    /\ program \in Programs
    /\ recent_only \in BOOLEAN
    /\ threads \in 1..MaxThreads
    /\ site = AnySite
    /\ failK \in [Addrs -> StubKs]
    /\ file_backup \in Archives
    /\ program = "main.rs" => file_backup = <<>>
    /\ pc = "fanout"
    /\ backup = file_backup
    /\ post_links \in SUBSET Addrs
    /\ ~recent_only => post_links \cap URLs(file_backup) = {}
    /\ pending = post_links
    /\ InitFlags
    /\ InitWalk
    /\ InitWorkers
    /\ InitNoWrite

NextPool ==
    \/ \E w \in Workers : Take(w)
    \/ \E w \in Workers : Attempt(w)
    \/ \E w \in Workers : Warn(w)
    \/ \E w \in Workers : Sleep(w)
    \/ \E w \in Workers : LockBackup(w)
    \/ \E w \in Workers : Push(w)
    \/ \E w \in Workers : FlagError(w)
    \/ \E w \in Workers : LogError(w)
    \/ Join

SpecPool == InitPool /\ [][NextPool]_vars

\* The pool under a scheduler that lets some runnable thread run: a worker that
\* can take a step, or the caller that can return from pool.install, is not
\* held back forever.
\* The library's pool starts from an empty Aggregate in full mode; the locks
\* the workers take depend on neither the mode nor a prior archive.
InitPoolFair ==
    /\ InitPool
    /\ program = "scrapers.rs"
    /\ ~recent_only
    /\ file_backup = <<>>

SpecPoolFair == InitPoolFair /\ [][NextPool]_vars /\ WF_vars(NextPool)

\* ------------------------------------------- the retry loop on its own
\* One address, one worker, a stub that fails its first k calls and succeeds
\* on every later one.
InitRetry ==
    /\ unnumbered = {}
    /\ program \in Programs
    /\ recent_only = FALSE
    /\ threads = 1
    /\ site = AnySite
    /\ \E a \in Addrs :
          /\ post_links = {a}
          /\ \E k \in 0..MaxK : failK = [b \in Addrs |-> IF b = a THEN k ELSE 0]
    /\ file_backup = <<>>
    /\ pc = "fanout"
    /\ backup = <<>>
    /\ pending = post_links
    /\ InitFlags
    /\ InitWalk
    /\ InitWorkers
    /\ InitNoWrite

SpecRetry == InitRetry /\ [][NextPool]_vars

\* ---------------------------------------------- the discovery on its own
\* A site that answers the same every time: each page has one response.
Sites == [Pages -> {{r} : r \in Responses}]

\* scrape_all_post_links is entered with the loaded archive, on any fixed site.
InitDiscover ==
    /\ unnumbered = {}
    /\ program \in Programs
    /\ recent_only = FALSE
    /\ threads = 1
    /\ site \in Sites
    /\ failK = [a \in Addrs |-> 0]
    /\ file_backup \in Archives
    /\ program = "main.rs" => file_backup = <<>>
    /\ pc = "discover"
    /\ backup = file_backup
    /\ post_links = {}
    /\ pending = {}
    /\ InitFlags
    /\ InitWalk
    /\ InitWorkers
    /\ InitNoWrite

\* The next run of the library version on the unchanged site: some of the posts
\* the first discovery found were scraped and archived, backup.json was loaded
\* again, and scrape_all_post_links starts over.
Rerun ==
    /\ pc = "fanout"
    /\ run_no = 1
    /\ program = "scrapers.rs"
    /\ \E S \in SUBSET post_links :
          /\ backup' = PostsOf(URLs(backup) \cup S)
          /\ file_backup' = backup'
          /\ loaded' = (backup' # <<>>)
    /\ run_no' = 2
    /\ first_links' = post_links
    /\ post_links' = {}
    /\ pending' = {}
    /\ fetch_count' = [p \in Pages |-> 0]
    /\ pc' = "discover"
    /\ UNCHANGED <<program, recent_only, threads, site, failK, unnumbered, fileVars, lockVars,
                   error_written, log_file, current_url, visited_urls, all_links,
                   failed_pages, missing_ids, wpc, link, attempts, invoked, calls,
                   outcome>>

NextDiscover ==
    \/ ScrapeAllStep
    \/ Rerun

SpecDiscover == InitDiscover /\ [][NextDiscover]_vars

\* ------------------------------- two write_to_file invocations at once
\* Two runs reach write_to_file on the same destination, each with its data.
InitWrite ==
    /\ unnumbered = {}
    /\ program \in Programs
    /\ recent_only = FALSE
    /\ threads = 1
    /\ site = AnySite
    /\ failK = [a \in Addrs |-> 0]
    /\ file_backup = <<>>
    /\ pc = "write"
    /\ backup = <<>>
    /\ post_links = {}
    /\ pending = {}
    /\ InitFlags
    /\ InitWalk
    /\ InitWorkers
    /\ dest = PreviousContent
    /\ flock = NoWriter
    /\ wr_pc = [p \in Writers |-> "create"]
    /\ wr_data \in [Writers -> Archives]

NextWrite ==
    \/ \E p \in Writers : Create(p)
    \/ \E p \in Writers : LockExclusive(p)
    \/ \E p \in Writers : WriteAll(p)
    \/ \E p \in Writers : Unlock(p)

SpecWrite == InitWrite /\ [][NextWrite]_vars

\* ------------------------------------------------------ a run of main.rs
\* A whole run of the single-file version: any site, any stub, any pages without
\* an id in the title, no prior archive.
InitMain ==
    /\ unnumbered \in SUBSET Addrs
    /\ program = "main.rs"
    /\ recent_only \in BOOLEAN
    /\ threads \in 1..MaxThreads
    /\ site = AnySite
    /\ failK \in [Addrs -> StubKs]
    /\ file_backup = <<>>
    /\ pc = "start"
    /\ backup = <<>>
    /\ post_links = {}
    /\ pending = {}
    /\ InitFlags
    /\ InitWalk
    /\ InitWorkers
    /\ InitNoWrite

SpecMain == InitMain /\ [][Next]_vars

\* ------------------------------------ the consistency checks on their own
\* The posts the checks are run on: any id with no date, or no id with any
\* date or none (the checks read the date of a post without id only).
PostKinds ==
    [id : IdLabels, date : {None}] \cup [id : {None}, date : DateLabels \cup {None}]

\* The archives of up to MaxItems such posts, each with an address of its own.
CheckArchives ==
    UNION {{[i \in 1..n |-> [URL |-> i, id |-> k[i].id, date |-> k[i].date]] :
               k \in [1..n -> PostKinds]} : n \in 0..MaxItems}

\* find_duplicates and find_missing_ids are called on any such archive, with
\* an empty log.
InitCheck ==
    /\ unnumbered = {}
    /\ program \in Programs
    /\ recent_only = FALSE
    /\ threads = 1
    /\ site = AnySite
    /\ failK = [a \in Addrs |-> 0]
    /\ file_backup = <<>>
    /\ pc = "find_duplicates"
    /\ backup \in CheckArchives
    /\ post_links = {}
    /\ pending = {}
    /\ InitFlags
    /\ InitWalk
    /\ InitWorkers
    /\ InitNoWrite

NextCheck ==
    \/ FindDuplicates
    \/ FindMissingIds

SpecCheck == InitCheck /\ [][NextCheck]_vars

\* ================================================================ claims
Finished(a) == outcome[a] # "none"

\* The positions of main after the pool has drained, the error exit apart.
Drained ==
    pc \in {"joined", "sorted", "write", "find_duplicates", "find_missing_ids", "done"}

\* The posts the pool appended: the Aggregate after the loaded archive.
Appended == SubSeq(backup, Len(file_backup) + 1, Len(backup))

\* C1 (SpecRetry): with a stub that fails its first k calls and succeeds on every
\* later one, fetch_and_process_with_retries returns the post if and only if
\* k < MAX_RETRIES, and an error otherwise.
C1_RetryCeiling ==
    \A a \in Addrs :
        Finished(a) => (outcome[a] = "ok" <=> failK[a] < MAX_RETRIES)

\* C1 witness: the last allowed attempt succeeded (k = MAX_RETRIES - 1).
C1_Witness ==
    \E a \in Addrs :
        /\ outcome[a] = "ok"
        /\ failK[a] = MAX_RETRIES - 1
        /\ calls[a] = MAX_RETRIES

\* C2 as claimed (SpecRetry): the number of [WARN] records for an address equals
\* min(k, MAX_RETRIES).
C2_WarnCountClaimed ==
    \A a \in Addrs :
        Finished(a) => Count(log_file, "WARN", a) = Min(failK[a], MAX_RETRIES)

\* C2 amended (SpecRetry): the number of [WARN] records for an address equals
\* min(k, MAX_RETRIES - 1): the attempt that exhausts the retries writes none.
C2_WarnCount ==
    \A a \in Addrs :
        Finished(a) => Count(log_file, "WARN", a) = Min(failK[a], MAX_RETRIES - 1)

\* C2 witness: the retries were exhausted and MAX_RETRIES - 1 warnings written.
C2_Witness ==
    \E a \in Addrs :
        /\ outcome[a] = "err"
        /\ failK[a] >= MAX_RETRIES
        /\ Count(log_file, "WARN", a) = MAX_RETRIES - 1

\* C3 (SpecPool): when every address of the discovery set succeeds, the drained
\* pool has appended exactly one post per address to the Aggregate, whatever
\* the pool size and the interleaving: none lost, none twice, and what the
\* Aggregate held before is still in front.
C3_NoLostAppends ==
    (pc = "joined" /\ \A a \in post_links : failK[a] = 0) =>
        /\ Len(backup) = Len(file_backup) + Cardinality(post_links)
        /\ SubSeq(backup, 1, Len(file_backup)) = file_backup
        /\ \A a \in Addrs :
              Occurrences(Appended, a) = IF a \in post_links THEN 1 ELSE 0

\* C3 witness: a full pool drained a discovery set of every address, all
\* succeeding.
C3_Witness ==
    /\ pc = "joined"
    /\ threads = MaxThreads
    /\ post_links = Addrs
    /\ \A a \in Addrs : failK[a] = 0 /\ outcome[a] = "ok"
    /\ Len(Appended) = NumAddrs

\* C4 (SpecWrite): once a write_to_file invocation has written, the destination
\* always holds the complete serialization of one invocation's data, never an
\* empty, truncated or mixed content.
C4_AtomicPersistence ==
    (\E p \in Writers : wr_pc[p] \in {"unlock", "done"}) =>
        dest \in {Serialize(wr_data[p]) : p \in Writers}

\* The response of a page of a site that answers the same every time.
PageOf(p) == CHOOSE r \in site[p] : TRUE

\* C5 (SpecDiscover): on a site whose fetches all succeed, scrape_all_post_links,
\* in scrapers.rs and in main.rs, fetches each page at most once (so it
\* terminates), and returns every item address of the pages it fetched (those
\* already archived aside).
C5_CycleTermination ==
    (\A p \in Pages : PageOf(p).ok) =>
        /\ \A p \in Pages : fetch_count[p] <= 1
        /\ pc = "fanout" =>
              post_links =
                  UNION {PageOf(p).links \ ArchivedLinks : p \in {q \in Pages : fetch_count[q] > 0}}

\* C6 (Spec): the posts search_and_scrape returns never hold two entries with
\* the same address, in full and in recent-only mode, with or without a loaded
\* archive.
C6_NoDuplicateAddress ==
    Drained =>
        \A a \in Addrs : Occurrences(backup, a) <= 1

\* C7 (SpecDiscover): what scrape_all_post_links (scrapers.rs) collects is
\* disjoint from the archive's addresses, and a second discovery on the
\* unchanged site, after posts of the first were archived, finds a subset of
\* what the first found.
C7_Idempotence ==
    program = "scrapers.rs" =>
        /\ all_links \cap URLs(backup) = {}
        /\ pc = "fanout" => post_links \cap URLs(backup) = {}
        /\ run_no = 2 => all_links \subseteq first_links
        /\ (run_no = 2 /\ pc = "fanout") => post_links \subseteq first_links

\* C7 witness: the second discovery returned a proper, non-empty part of the
\* first one's set.
C7_Witness ==
    /\ program = "scrapers.rs"
    /\ run_no = 2
    /\ pc = "fanout"
    /\ post_links # {}
    /\ post_links # first_links
    /\ URLs(backup) \cap first_links # {}

\* C8 (Spec): the pool returns only after fetch_and_process_with_retries was
\* called exactly once for every address of the discovery set, whatever failed;
\* no failure of an address ends the run: after the pool the write can start,
\* and the run ends in error before the write only when a discovery fetch failed.
C8_PoolDrains ==
    /\ (Drained \/ (pc = "error" /\ wr_pc[1] # "idle")) =>
          \A a \in Addrs :
              /\ invoked[a] = IF a \in post_links THEN 1 ELSE 0
              /\ a \in post_links => Finished(a)
    /\ pc = "joined" => ENABLED SortBackup
    /\ pc = "sorted" => ENABLED StartWrite
    /\ (pc = "error" /\ wr_pc[1] = "idle") => failed_pages # {}

\* C8 witness: a run reached the end of its write although one address failed
\* for good beside one that succeeded.
C8_Witness ==
    /\ pc = "done"
    /\ \E a, b \in post_links : outcome[a] = "err" /\ outcome[b] = "ok"

C9_State ==
    /\ error_written => \E a \in post_links : outcome[a] = "err"
    /\ \A a \in Addrs : Count(log_file, "ERROR", a) <= 1
    /\ pc = "joined" =>
          /\ error_written <=> \E a \in post_links : outcome[a] = "err"
          /\ \A a \in post_links :
                /\ outcome[a] = "err" =>
                      Count(log_file, "ERROR", a) = 1 /\ Occurrences(Appended, a) = 0
                /\ outcome[a] = "ok" =>
                      Count(log_file, "ERROR", a) = 0 /\ Occurrences(Appended, a) = 1

\* C9 (SpecPool): after the pool has drained error_written is true if and only
\* if an address failed for good; once true it stays true; an address that
\* failed has exactly one [ERROR] record and no appended post, one that
\* succeeded has no [ERROR] record.
C9_HadErrors ==
    []C9_State /\ [][error_written => error_written']_vars

\* C9 witness: two addresses failed for good, the flag was set twice.
C9_Witness ==
    /\ pc = "joined"
    /\ error_written
    /\ Cardinality({a \in post_links : outcome[a] = "err"}) >= 2

\* C10 (Spec): a failed fetch of a pagination page is not retried and ends the
\* run with an error: no discovery set is returned, no address is scraped and
\* the destination is not written; a run that ends well has a write_to_file
\* that returned Ok.
C10_FatalPhases ==
    /\ failed_pages # {} =>
          /\ pc = "error"
          /\ Cardinality(failed_pages) = 1
          /\ \A p \in failed_pages : fetch_count[p] = 1
          /\ post_links = {}
          /\ \A a \in Addrs : invoked[a] = 0
          /\ \A w \in Workers : Idle(w)
          /\ wr_pc[1] = "idle"
          /\ dest = PreviousContent
    /\ wr_pc[1] = "failed" => pc \in {"write", "error"}
    /\ pc \in {"find_duplicates", "find_missing_ids", "done"} => wr_pc[1] = "done"

\* C10 witness: the fetch of a later page failed after links had been found.
C10_Witness ==
    /\ pc = "error"
    /\ failed_pages # {}
    /\ BaseUrl \notin failed_pages
    /\ all_links # {}

\* C16 (SpecPool): a worker in the backoff sleep of the retry loop holds none of
\* the shared locks, so another worker that wants the log sink can take it.
C16_SleepHoldsNoLock ==
    \A w \in Workers :
        wpc[w] = "sleep" =>
            /\ log_lock # w /\ backup_lock # w /\ err_lock # w
            /\ \A v \in Workers : wpc[v] = "warn_wait" => ENABLED Warn(v)
            /\ \A v \in Workers : wpc[v] = "errlog_wait" => ENABLED LogError(v)

\* C17 (SpecPool): the worker that holds the backup mutex is at the push and
\* nowhere else (not fetching, extracting, sleeping or writing a log line), it
\* holds no other lock, and no second worker is at the push.
C17_AppendOnlyUnderLock ==
    /\ \A w \in Workers :
          backup_lock = w =>
              /\ wpc[w] = "push"
              /\ log_lock # w
              /\ err_lock # w
    /\ \A w \in Workers : wpc[w] = "push" => backup_lock = w
    /\ Cardinality({w \in Workers : wpc[w] = "push"}) <= 1

\* C17 witness: one worker is at the push while another waits for the mutex.
C17_Witness ==
    \E w, v \in Workers :
        /\ w # v
        /\ backup_lock = w
        /\ wpc[w] = "push"
        /\ wpc[v] = "push_wait"

C19_State ==
    \A a \in Addrs :
        /\ calls[a] <= MAX_RETRIES
        /\ Finished(a) => calls[a] >= 1
        /\ outcome[a] = "ok" => calls[a] = failK[a] + 1
        /\ outcome[a] = "err" => calls[a] = MAX_RETRIES /\ Fails(a, MAX_RETRIES)

C19_Step ==
    \A a \in Addrs :
        /\ Finished(a) => calls'[a] = calls[a]
        /\ (outcome[a] = "none" /\ outcome'[a] = "err") =>
              calls'[a] = calls[a] + 1 /\ calls'[a] = MAX_RETRIES

\* C19 (SpecRetry): one invocation of fetch_and_process_with_retries calls
\* fetch_and_process_post at least once and at most MAX_RETRIES times; it stops
\* at the first success and calls no more after it has returned; an error is
\* returned in the step of the MAX_RETRIES-th call, whose error it is.
C19_CallBounds ==
    []C19_State /\ [][C19_Step]_vars

\* C19 witness: the error was returned after MAX_RETRIES calls although a later
\* call would have failed as well.
C19_Witness ==
    \E a \in Addrs :
        /\ outcome[a] = "err"
        /\ calls[a] = MAX_RETRIES
        /\ failK[a] > MAX_RETRIES
        /\ \A w \in Workers : Idle(w)

\* The [DUPLICATE] lines of the sink.
DuplicateLines == {r \in BagToSet(log_file) : r.tag = "DUPLICATE"}

C11_State ==
    pc \in {"find_missing_ids", "done"} =>
        /\ \A r \in DuplicateLines :
              /\ r.dup_id # None
              /\ r.count = Cardinality({i \in 1..Len(backup) : backup[i].id = r.dup_id})
              /\ r.count > 1
              /\ CopiesIn(r, log_file) = 1
        /\ \A i, j \in 1..Len(backup) :
              (i # j /\ backup[i].id = backup[j].id /\ backup[i].id # None) =>
                  \E r \in DuplicateLines : r.dup_id = backup[i].id

\* C11 (SpecCheck): find_duplicates writes exactly one [DUPLICATE] line, with
\* the exact number of occurrences, for every string that is the present id of
\* more than one post, and no other; absent ids are not counted; the posts are
\* left as they were.
C11_Duplicates ==
    []C11_State /\ [][pc = "find_duplicates" => backup' = backup]_vars

\* C11 witness: an id carried twice beside another one carried once gave one
\* line with count 2.
C11_Witness ==
    /\ pc = "find_missing_ids"
    /\ Len(backup) = 3
    /\ backup[1].id = backup[2].id
    /\ backup[1].id # None
    /\ backup[3].id \notin {None, backup[1].id}
    /\ log_file = SetToBag({DuplicateRecord(backup[1].id, 2)})

\* The posts whose id is present and parses as a number.
Numbered == {i \in 1..Len(backup) : backup[i].id # None /\ ParseId(backup[i].id) # NoNumber}

\* The numbers 0..n no numbered post carries, n the number of numbered posts.
Gaps == (0..Cardinality(Numbered)) \ {ParseId(backup[i].id) : i \in Numbered}

\* C12 (SpecCheck): with n the number of posts whose id is present and parses,
\* find_missing_ids' missing ids are the numbers of 0..n that are the parsed id
\* of no post, in ascending order; ids that do not parse are not counted.
C12_MissingIds ==
    pc = "done" =>
        /\ Range(missing_ids) = Gaps
        /\ \A i, j \in 1..Len(missing_ids) : i < j => missing_ids[i] < missing_ids[j]

\* C12 witness: three numbered posts with the ids 0, 1 and 3: n = 3 and 2 is
\* the one missing id.
C12_Witness ==
    /\ pc = "done"
    /\ Cardinality(Numbered) = 3
    /\ missing_ids = <<2>>

\* The lines of the sink that report a missing id.
MissingReports == {r \in BagToSet(log_file) : r.tag \in {"MISSING", "MISSING ID"}}

\* C13 (SpecCheck): find_missing_ids reports every missing id in the sink: as
\* many lines as missing ids, the i-th missing id paired with a post without id
\* when there are at least i such posts and reported unpaired otherwise.
C13_EveryMissingIdReported ==
    pc = "done" =>
        LET without == {i \in 1..Len(backup) : backup[i].id = None} IN
        /\ SumCopies(log_file, MissingReports) = Len(missing_ids)
        /\ \A i \in 1..Len(missing_ids) :
              \E r \in MissingReports :
                  /\ r.missing_id = missing_ids[i]
                  /\ IF i <= Cardinality(without)
                        THEN \E j \in without : r.url = backup[j].URL
                        ELSE r.url = NoLink

\* The parsed id and date of the posts handed to write_to_file.
WrittenId(i) ==
    IF wr_data[1][i].id = None THEN NoNumber ELSE ParseId(wr_data[1][i].id)
WrittenDate(i) ==
    IF wr_data[1][i].date = None THEN NoDate ELSE ParseDate(wr_data[1][i].date)

\* C14 (SpecMain): the posts handed to write_to_file are sorted by the key of
\* the mode: in full mode by parsed id, descending, posts without a parsed id
\* last; in recent-only mode by parsed date, descending, posts without a
\* parsed date last.
C14_SortedForMode ==
    wr_pc[1] # "idle" =>
        \A i, j \in 1..Len(wr_data[1]) :
            i < j => IF recent_only THEN WrittenDate(i) >= WrittenDate(j)
                                    ELSE WrittenId(i) >= WrittenId(j)

\* C15 (SpecMain): the final phase sorts, then runs find_duplicates and
\* find_missing_ids, then writes: as long as the sort or one of the two checks
\* is still to come, write_to_file has not been called and the destination is
\* untouched.
C15_ChecksBeforeWrite ==
    pc \in {"joined", "sorted", "find_duplicates", "find_missing_ids"} =>
        /\ wr_pc[1] = "idle"
        /\ dest = PreviousContent

\* No worker is inside the closure and no lock of the pool is held.
PoolAtRest ==
    /\ \A w \in Workers : Idle(w)
    /\ backup_lock = NoWorker /\ err_lock = NoWorker /\ log_lock = NoWorker

C18_State ==
    /\ pc \in {"start", "discover"} =>
          /\ PoolAtRest
          /\ post_links = {}
          /\ \A a \in Addrs : invoked[a] = 0 /\ calls[a] = 0
    /\ \A a \in Addrs : invoked[a] > 0 => a \in post_links
    /\ (Drained \/ pc = "error") =>
          /\ PoolAtRest
          /\ pending = {}
    /\ Drained => \A a \in post_links : Finished(a)
    /\ wr_pc[1] # "idle" => (Drained \/ pc = "error") /\ pc # "joined"

C18_Step ==
    /\ pc = "fanout" => post_links' = post_links
    /\ pc # "fanout" =>
          /\ wpc' = wpc /\ calls' = calls /\ invoked' = invoked
          /\ pc \notin {"start", "joined"} => backup' = backup

\* C18 (Spec): discovery, fan-out and the final phase do not overlap: no address
\* is taken or fetched before discovery has returned the discovery set, which
\* does not change afterwards; the Aggregate is taken out of its mutex, sorted
\* and written only when every address has been handled and no worker is
\* inside the closure, and no worker moves or appends from then on.
C18_PhasesDoNotOverlap ==
    []C18_State /\ [][C18_Step]_vars

\* C18 witness: a full pool handled every address and the sorted Aggregate is
\* about to be written.
C18_Witness ==
    /\ pc = "sorted"
    /\ threads = MaxThreads
    /\ post_links = Addrs
    /\ Len(backup) >= NumAddrs

\* The fan-out is about to begin: discovery has returned, no address is taken.
FanoutBegins == pc = "fanout" /\ \A a \in Addrs : invoked[a] = 0

\* During the fan-out a step leaves the Aggregate alone or appends one post at
\* its end.
C20_Step ==
    pc = "fanout" =>
        \/ backup' = backup
        \/ /\ Len(backup') = Len(backup) + 1
           /\ SubSeq(backup', 1, Len(backup)) = backup

\* C20 as claimed (Spec): the Aggregate is empty when the fan-out begins and
\* during the fan-out only grows, one post at the end at a time.
C20_EmptyThenGrows ==
    [](FanoutBegins => backup = <<>>) /\ [][C20_Step]_vars

\* C20 amended (Spec): when the fan-out begins the Aggregate holds the posts
\* loaded from backup.json, or none when the file could not be read, and
\* during the fan-out it only grows, one post at the end at a time.
C20_LoadedThenGrows ==
    [](FanoutBegins => backup \in {file_backup, <<>>}) /\ [][C20_Step]_vars

\* C20 witness: a post was appended behind a loaded archive.
C20_Witness ==
    /\ pc = "fanout"
    /\ file_backup # <<>>
    /\ Len(backup) > Len(file_backup)
    /\ SubSeq(backup, 1, Len(file_backup)) = file_backup

\* The workers inside the closure, from the hand-over of an address to the end
\* of its arm.
Busy == {w \in Workers : ~Idle(w)}

\* C21 (SpecPool): during the fan-out at most `threads` addresses are in
\* progress at once, every busy worker is one of the pool's, no two workers
\* work on the same address and no address is handed out twice.
C21_BoundedConcurrency ==
    /\ Cardinality(Busy) <= threads
    /\ \A w \in Busy : w <= threads /\ link[w] \in post_links
    /\ \A w, v \in Busy : w # v => link[w] # link[v]
    /\ \A a \in Addrs : invoked[a] <= 1

\* C21 witness: a pool of one worker is busy while an address waits, although
\* the model has a second worker.
C21_Witness ==
    /\ pc = "fanout"
    /\ threads = 1
    /\ threads < MaxThreads
    /\ Cardinality(Busy) = 1
    /\ pending # {}

\* The worker waits for a mutex another worker holds.
Blocked(w) ==
    \/ wpc[w] = "push_wait" /\ backup_lock # NoWorker
    \/ wpc[w] = "err_wait" /\ err_lock # NoWorker
    \/ wpc[w] \in {"warn_wait", "errlog_wait"} /\ log_lock # NoWorker

C22_State ==
    /\ \A w \in Workers :
          /\ backup_lock = w => wpc[w] = "push" /\ err_lock # w /\ log_lock # w
          /\ log_lock = w => wpc[w] = "sleep" /\ err_lock # w
          /\ err_lock = w => wpc[w] = "errlog_wait"
    /\ Busy # {} => \E w \in Busy : ~Blocked(w)
    /\ pc = "fanout" => ENABLED NextPool

\* C22 (SpecPoolFair): the fan-out cannot deadlock: the backup mutex and the log
\* mutex of a warning are held alone, the only nesting is error_written then
\* log_file, in no reachable state are all busy workers waiting for a mutex,
\* some step is always possible until the pool has returned, and under a fair
\* scheduler the pool returns.
C22_DeadlockFree ==
    []C22_State /\ <>(pc = "joined")

\* C22 witness: a worker in its Err arm holds error_written and waits for the
\* log, which a sleeping worker holds.
C22_Witness ==
    \E w, v \in Workers :
        /\ err_lock = w
        /\ wpc[w] = "errlog_wait"
        /\ log_lock = v
        /\ wpc[v] = "sleep"
        /\ Blocked(w)

RECURSIVE InAddressOrder(_)
\* The posts of the addresses S, one each, lowest address first.
InAddressOrder(S) ==
    IF S = {} THEN <<>>
    ELSE LET a == CHOOSE x \in S : \A y \in S : x <= y
         IN  <<Post(a)>> \o InAddressOrder(S \ {a})

\* C23 (SpecMain): the sequence handed to write_to_file is fixed by the discovery
\* set and the per-address results: it is what the sort makes of the scraped
\* posts taken in address order, whatever order the workers finished in, the
\* order of posts with equal keys included.
C23_OrderIndependent ==
    wr_pc[1] # "idle" =>
        wr_data[1] = SortById(InAddressOrder({a \in post_links : outcome[a] = "ok"}))

\* C24 (Spec): when the posts of backup.json were loaded, every one of them is in
\* the Aggregate, unmodified and in its place in front, all through discovery
\* and fan-out and in the collection search_and_scrape returns, whatever the
\* per-address scrapes came to.
C24_PriorArchiveRetained ==
    (loaded /\ pc \in {"discover", "fanout", "joined"}) =>
        /\ Len(backup) >= Len(file_backup)
        /\ SubSeq(backup, 1, Len(file_backup)) = file_backup
        /\ \A i \in 1..Len(file_backup) : Occurrences(backup, file_backup[i].URL) >= 1

\* C24 witness: every address of the discovery set failed for good and the
\* returned collection is the loaded archive.
C24_Witness ==
    /\ pc = "joined"
    /\ loaded
    /\ post_links # {}
    /\ \A a \in post_links : outcome[a] = "err"
    /\ backup = file_backup

====
